---- MODULE Spec2Model ----
(***************************************************************************)
(* MCP client subsystem of swarm-builder: the client facade (MCPClient),   *)
(* the tool catalog (MCPToolRegistry), the server connection               *)
(* (MCPServerConnection) and the permission manager                        *)
(* (MCPPermissionManager).                                                 *)
(*                                                                         *)
(* JavaScript runs every callback to completion, so one action is one      *)
(* synchronous stretch of code: from a call (or a resumed await, or a      *)
(* timer/socket callback) to the next await or the return.  A continuation *)
(* of an await on an already settled promise is a microtask; timers and    *)
(* socket events are macrotasks and run only when no microtask is queued.  *)
(***************************************************************************)
EXTENDS Integers, Sequences, FiniteSets, TLC

\* ------------------------------------------------------------------ bounds
MaxConns == 2        \* MCPServerConnection objects the facade constructs
MaxExec == 2         \* executeTool calls made through the facade
MaxRequests == 2     \* sendRequest calls on one connection
MaxRules == 1        \* (caller, tool) pairs given a permission rule
MaxTimers == 1       \* reconnect timers of one connection armed at once
MaxCalls == 2        \* connect() calls on one connection in flight at once
MaxAttempts == 2     \* automatic reconnect attempts counted per connection
MaxUsage == 2        \* calls on record in the permission manager, all pairs

\* ------------------------------------------------------------------ inputs
ServerIds == {"", "fs"}
Transports == {"websocket", "http", "stdio"}
Callers == {"agent1", "agent2"}
Undefined == "<undefined>"

\* tool ids and parameter objects handed to executeTool; a parameter object
\* is its key set and the keys whose value is truthy, or not an object
ExecToolIds == {"fs:echo"}
ParamKeys == {"message", "path"}
Params(keys, truthy) == [defined |-> TRUE, keys |-> keys, truthy |-> truthy]
NoParams == [defined |-> FALSE, keys |-> {}, truthy |-> {}]
ParamInputs ==
  {NoParams, Params({"message"}, {"message"}), Params({"message"}, {}),
   Params({"message", "path"}, {"message", "path"})}

\* permission rules handed to setPermission: an absent field is undefined
RuleInputs ==
  { [maxCallsPerSession |-> 1],
    [requireApproval |-> TRUE],
    [allowedParameters |-> {"message"}] }

\* tool ids, rules, parameter objects and costs handed to the permission
\* manager when it is driven directly; NoRule is a rule with no field set,
\* a cost is a number (in whole units) or undefined
PermToolIds == {"fs:echo", "fs:read"}
NoRule == [f \in {} |-> 0]
PermRuleInputs ==
  { NoRule,
    [maxCallsPerSession |-> 0],
    [maxCostPerSession |-> 0],
    [maxCallsPerSession |-> 1, requireApproval |-> FALSE],
    [maxCallsPerSession |-> 2, maxCostPerSession |-> 1,
     allowedParameters |-> {"message"}, requireApproval |-> TRUE] }
PermParamInputs ==
  { NoParams, Params({}, {}), Params({"message"}, {"message"}),
    Params({"message", "path"}, {"message", "path"}) }
Cost(n) == [defined |-> TRUE, value |-> n]
NoCost == [defined |-> FALSE, value |-> 0]
CostInputs == {NoCost, Cost(0), Cost(1)}
\* recordToolUsage takes any number: a refund or a bad estimate is negative
SignedCostInputs == CostInputs \cup {Cost(-1)}

\* JavaScript truthiness of an optional string
TruthyStr(s) == s # Undefined /\ s # ""

\* ---------------------------------------------------------- tool catalog
\* The catalog is a Map: a sequence of descriptors in insertion order, no
\* two with the same id.
MockTools == <<"echo">>

\* a tool id that leaves the server id out
ToolIdNameOnly(serverId, name) == name

ToolId(serverId, name) == serverId \o ":" \o name

Descriptor(serverId, name) ==
  [id |-> ToolId(serverId, name), serverId |-> serverId, name |-> name]

HasTool(ts, toolId) == \E i \in 1..Len(ts) : ts[i].id = toolId

\* Map.set: an existing key keeps its place and takes the new value
RegisterTool(ts, tool) ==
  IF HasTool(ts, tool.id)
  THEN [i \in 1..Len(ts) |-> IF ts[i].id = tool.id THEN tool ELSE ts[i]]
  ELSE Append(ts, tool)

UnregisterTool(ts, toolId) == SelectSeq(ts, LAMBDA t : t.id # toolId)

\* the descriptor, or Undefined for null
GetTool(ts, toolId) ==
  IF HasTool(ts, toolId)
  THEN ts[CHOOSE i \in 1..Len(ts) : ts[i].id = toolId]
  ELSE Undefined

\* the texts searched and searched for, spelled as their UTF-16 units
Spell ==
  [ s \in {"", "echo", "Grep", "Echo it", "find", "EC", "re", "x"} |->
      CASE s = "" -> <<>>
        [] s = "echo" -> <<"e", "c", "h", "o">>
        [] s = "Grep" -> <<"G", "r", "e", "p">>
        [] s = "Echo it" -> <<"E", "c", "h", "o", " ", "i", "t">>
        [] s = "find" -> <<"f", "i", "n", "d">>
        [] s = "EC" -> <<"E", "C">>
        [] s = "re" -> <<"r", "e">>
        [] s = "x" -> <<"x">> ]

\* String.prototype.toLowerCase, unit by unit
LowerOf == ("E" :> "e") @@ ("C" :> "c") @@ ("G" :> "g")
ToLowerCase(s) ==
  [i \in 1..Len(Spell[s]) |->
     IF Spell[s][i] \in DOMAIN LowerOf THEN LowerOf[Spell[s][i]] ELSE Spell[s][i]]

\* String.prototype.includes on spelled texts: part occurs in text
Includes(text, part) ==
  \E k \in 0..(Len(text) - Len(part)) :
     \A i \in 1..Len(part) : text[k + i] = part[i]

\* filter is a record of the fields the caller set (none for no filter or
\* {}); a field is tested for truthiness, so a falsy one is skipped; a
\* descriptor has a category field when its metadata has one
ListTools(ts, filter) ==
  LET byServer ==
        IF "serverId" \in DOMAIN filter /\ TruthyStr(filter.serverId)
        THEN SelectSeq(ts, LAMBDA t : t.serverId = filter.serverId)
        ELSE ts
      byCategory ==
        IF "category" \in DOMAIN filter /\ TruthyStr(filter.category)
        THEN SelectSeq(byServer,
               LAMBDA t : "category" \in DOMAIN t /\ t.category = filter.category)
        ELSE byServer
  IN  IF "search" \in DOMAIN filter /\ TruthyStr(filter.search)
      THEN SelectSeq(byCategory,
             LAMBDA t : \/ Includes(ToLowerCase(t.name), ToLowerCase(filter.search))
                        \/ Includes(ToLowerCase(t.description),
                                    ToLowerCase(filter.search)))
      ELSE byCategory

RECURSIVE RegisterAll(_, _, _)
RegisterAll(ts, serverId, names) ==
  IF names = <<>> THEN ts
  ELSE RegisterAll(RegisterTool(ts, Descriptor(serverId, Head(names))),
                   serverId, Tail(names))

RECURSIVE UnregisterAll(_, _)
UnregisterAll(ts, listed) ==
  IF listed = <<>> THEN ts
  ELSE UnregisterAll(UnregisterTool(ts, Head(listed).id), Tail(listed))

\* ------------------------------------------------------ server connection
\* settled[id] is the sequence of outcomes handed to the caller of request
\* id (history); timers is the set of request ids whose timeout timer is
\* armed; httpReplies the ids whose simulated http reply timer is armed;
\* reconnectTimers counts armed reconnect timers; sid is the facade id the
\* object was created for (history); autoAttempts counts, for a connection
\* configured with maxReconnectAttempts, the connect() calls its reconnect
\* timers made since the last connect() of a caller (history).
NewConnection(sid, options) ==
  [ status |-> "disconnected", options |-> options, capabilities |-> <<>>,
    socket |-> FALSE, requestId |-> 0, pendingRequests |-> {},
    timers |-> {}, httpReplies |-> {}, reconnectTimers |-> 0,
    settled |-> <<>>, sid |-> sid, autoAttempts |-> 0 ]

\* the options set a bound on the reconnect attempts
CountsAttempts(c) == "maxReconnectAttempts" \in DOMAIN c.options

\* settle every request in ids with outcome
SettleAll(settled, ids, outcome) ==
  [i \in DOMAIN settled |->
     IF i \in ids THEN Append(settled[i], outcome) ELSE settled[i]]

\* the loop shared by disconnect() and handleDisconnect()
RejectPending(c) ==
  [c EXCEPT !.settled = SettleAll(c.settled, c.pendingRequests, "closed"),
            !.timers = c.timers \ c.pendingRequests,
            !.pendingRequests = {}]

\* connect() up to its first await: the connection and where it waits
ConnectSync(c) ==
  IF c.status = "connected" THEN <<c, "returned">>
  ELSE IF c.options.transport = "websocket"
       THEN <<[c EXCEPT !.status = "connecting", !.socket = TRUE], "awaitSocket">>
  ELSE IF c.options.transport = "http"
       THEN <<[c EXCEPT !.status = "connected"], "awaitFetch">>
  ELSE <<[c EXCEPT !.status = "error"], "awaitRejected">>

\* the statuses connect() assigns, in order, up to its first await
ConnectStatuses(c) ==
  IF c.status = "connected" THEN <<>>
  ELSE IF c.options.transport = "websocket" THEN <<"connecting">>
  ELSE IF c.options.transport = "http" THEN <<"connecting", "connected">>
  ELSE <<"connecting", "error">>

FetchCapabilities(c) == MockTools

\* disconnect() without its status check
ConnDisconnectAnyStatus(c) ==
  [RejectPending(c) EXCEPT !.status = "disconnected"]

\* disconnect() without the loop over the pending requests
ConnDisconnectKeepsPending(c) ==
  IF c.status # "connected" THEN c
  ELSE [c EXCEPT !.status = "disconnected"]

ConnDisconnect(c) ==
  IF c.status # "connected" THEN c
  ELSE [RejectPending(c) EXCEPT !.status = "disconnected"]

\* sendRequest without the setTimeout of the request's deadline
ConnSendRequestNoTimer(c) ==
  LET id == c.requestId + 1
  IN  [c EXCEPT !.requestId = id,
                !.pendingRequests = @ \cup {id},
                !.settled = Append(@, <<>>),
                !.httpReplies = IF c.options.transport = "http"
                                THEN @ \cup {id} ELSE @]

\* sendRequest past its status check: a fresh id, its timeout timer, its
\* pending entry and, over http, the timer of the simulated reply
ConnSendRequest(c) ==
  LET id == c.requestId + 1
  IN  [c EXCEPT !.requestId = id,
                !.timers = @ \cup {id},
                !.pendingRequests = @ \cup {id},
                !.settled = Append(@, <<>>),
                !.httpReplies = IF c.options.transport = "http"
                                THEN @ \cup {id} ELSE @]

\* handleMessage without its clearTimeout
ConnHandleMessageKeepsTimer(c, msg) ==
  IF msg.wellFormed /\ msg.id # 0 /\ msg.id \in c.pendingRequests
  THEN [c EXCEPT !.settled[msg.id] =
                   Append(@, IF msg.error THEN "error" ELSE "result"),
                 !.pendingRequests = @ \ {msg.id}]
  ELSE c

\* handleMessage that hands a response to the oldest pending request
ConnHandleMessageFifo(c, msg) ==
  IF msg.wellFormed /\ msg.id # 0 /\ c.pendingRequests # {}
  THEN LET oldest == CHOOSE i \in c.pendingRequests :
                       \A j \in c.pendingRequests : i <= j
       IN  [c EXCEPT !.timers = @ \ {oldest},
                     !.settled[oldest] =
                       Append(@, IF msg.error THEN "error" ELSE "result"),
                     !.pendingRequests = @ \ {oldest}]
  ELSE c

\* msg = [wellFormed, id, error]: text that JSON.parse rejects, or a message
\* with its id (0: none) and whether it carries an error
ConnHandleMessage(c, msg) ==
  IF msg.wellFormed /\ msg.id # 0 /\ msg.id \in c.pendingRequests
  THEN [c EXCEPT !.timers = @ \ {msg.id},
                 !.settled[msg.id] =
                   Append(@, IF msg.error THEN "error" ELSE "result"),
                 !.pendingRequests = @ \ {msg.id}]
  ELSE c

\* the timeout callback without its pendingRequests.delete
ConnTimeoutKeepsPending(c, id) ==
  [c EXCEPT !.timers = @ \ {id},
            !.settled[id] = Append(@, "timeout")]

\* the callback of a request's timeout timer
ConnTimeout(c, id) ==
  [c EXCEPT !.timers = @ \ {id},
            !.pendingRequests = @ \ {id},
            !.settled[id] = Append(@, "timeout")]

HandleDisconnect(c) ==
  LET r == RejectPending(c)
  IN  IF c.options.reconnect
      THEN [r EXCEPT !.reconnectTimers = r.reconnectTimers + 1]
      ELSE r

\* ------------------------------------------------------------------ state
VARIABLES
  servers,      \* MCPClient.servers: server id -> connection (0: no entry)
  tools,        \* MCPToolRegistry.tools
  conns,        \* the MCPServerConnection objects constructed so far
  inflight,     \* async calls suspended at an await; n tells apart the
                \* connect() calls in flight on one connection
  permissions,  \* MCPPermissionManager.permissions
  callCounts,   \* MCPPermissionManager.callCounts
  costTracking, \* MCPPermissionManager.costTracking
  execs,        \* history: executeTool calls made, per caller and tool
  last          \* history: what the step just taken was and returned

vars == <<servers, tools, conns, inflight, permissions, callCounts,
          costTracking, execs, last>>

permVars == <<permissions, callCounts, costTracking>>

ConnIds == 1..Len(conns)

MicroPcs == {"awaitFetch", "awaitConnect", "awaitCaps", "awaitRejected",
             "awaitDisconnect"}

\* a continuation is queued as a microtask: no timer or socket event runs
MicroPending == \E k \in inflight : k.pc \in MicroPcs

\* the connect() calls in flight on connection c that were made on the
\* connection itself (by a caller or by a reconnect timer), and a number
\* for one more
ConnectsInFlight(c) == {k \in inflight : k.op = "connect" /\ k.conn = c}

FreshCall(c) ==
  CHOOSE n \in 1..MaxCalls : \A k \in ConnectsInFlight(c) : k.n # n

\* step: "call" (the call up to its first await or its return), "resume"
\* (the code after an await) or "event" (a timer or socket callback);
\* req: the request id of a message or timeout, or the number of requests a
\* disconnect rejected
Obs(op, step, sid, conn, result) ==
  [op |-> op, step |-> step, sid |-> sid, conn |-> conn, tool |-> Undefined,
   caller |-> Undefined, req |-> 0, result |-> result]

Init ==
  /\ servers = [s \in ServerIds |-> 0]
  /\ tools = <<>>
  /\ conns = <<>>
  /\ inflight = {}
  /\ permissions = <<>>
  /\ callCounts = <<>>
  /\ costTracking = <<>>
  /\ execs = [p \in Callers \X ExecToolIds |-> [calls |-> 0, ok |-> 0]]
  /\ last = Obs("init", "event", Undefined, 0, "ok")

\* -------------------------------------------------- MCPClient.connectServer
ServerExists(sid) == servers[sid] # 0

\* connectServer without its duplicate-id check
ConnectServerStartUnchecked(sid, options) ==
  /\ Len(conns) < MaxConns
  /\ LET r == ConnectSync(NewConnection(sid, options))
         c == Len(conns) + 1
     IN  /\ conns' = Append(conns, r[1])
         /\ inflight' = inflight \cup
              {[op |-> "connectServer", sid |-> sid, conn |-> c, pc |-> r[2],
                    n |-> 1]}
         /\ last' = Obs("connectServer", "call", sid, c, "pending")
  /\ UNCHANGED <<servers, tools, permVars, execs>>

\* connectServer with servers.set moved before await connection.connect()
ConnectServerStartRegistersFirst(sid, options) ==
  IF ServerExists(sid)
  THEN /\ last' = Obs("connectServer", "call", sid, 0, "DuplicateServerId")
       /\ UNCHANGED <<servers, tools, conns, inflight, permVars, execs>>
  ELSE /\ Len(conns) < MaxConns
       /\ LET r == ConnectSync(NewConnection(sid, options))
              c == Len(conns) + 1
          IN  /\ conns' = Append(conns, r[1])
              /\ servers' = [servers EXCEPT ![sid] = c]
              /\ inflight' = inflight \cup
                   {[op |-> "connectServer", sid |-> sid, conn |-> c, pc |-> r[2],
                     n |-> 1]}
              /\ last' = Obs("connectServer", "call", sid, c, "pending")
       /\ UNCHANGED <<tools, permVars, execs>>

ConnectServerStart(sid, options) ==
  IF ServerExists(sid)
  THEN /\ last' = Obs("connectServer", "call", sid, 0, "DuplicateServerId")
       /\ UNCHANGED <<servers, tools, conns, inflight, permVars, execs>>
  ELSE /\ Len(conns) < MaxConns
       /\ LET r == ConnectSync(NewConnection(sid, options))
              c == Len(conns) + 1
          IN  /\ conns' = Append(conns, r[1])
              /\ inflight' = inflight \cup
                   {[op |-> "connectServer", sid |-> sid, conn |-> c, pc |-> r[2],
                    n |-> 1]}
              /\ last' = Obs("connectServer", "call", sid, c, "pending")
       /\ UNCHANGED <<servers, tools, permVars, execs>>

\* the timer of connectWebSocket fires
SocketOpen(k) ==
  /\ k \in inflight /\ k.pc = "awaitSocket"
  /\ ~MicroPending
  /\ conns' = [conns EXCEPT ![k.conn].status = "connected"]
  /\ inflight' = (inflight \ {k}) \cup {[k EXCEPT !.pc = "awaitFetch"]}
  /\ last' = Obs("socketOpen", "event", k.sid, k.conn, "ok")
  /\ UNCHANGED <<servers, tools, permVars, execs>>

\* socket.onerror, then the catch of connect()
SocketError(k) ==
  /\ k \in inflight /\ k.pc = "awaitSocket"
  /\ ~MicroPending
  /\ conns' = [conns EXCEPT ![k.conn].status = "error"]
  /\ inflight' = (inflight \ {k}) \cup {[k EXCEPT !.pc = "awaitRejected"]}
  /\ last' = Obs("socketError", "event", k.sid, k.conn, "ok")
  /\ UNCHANGED <<servers, tools, permVars, execs>>

\* connect() resumes with the capabilities and returns
FetchDone(k) ==
  /\ k \in inflight /\ k.pc = "awaitFetch"
  /\ conns' = [conns EXCEPT ![k.conn].capabilities = FetchCapabilities(conns[k.conn])]
  /\ inflight' = IF k.op = "connectServer"
                 THEN (inflight \ {k}) \cup {[k EXCEPT !.pc = "awaitConnect"]}
                 ELSE inflight \ {k}
  /\ last' = Obs("connect", "resume", k.sid, k.conn,
                 IF k.op = "connectServer" THEN "pending" ELSE "ok")
  /\ UNCHANGED <<servers, tools, permVars, execs>>

\* connect() rejected: connectServer rethrows, a reconnect logs the error
ConnectRejected(k) ==
  /\ k \in inflight /\ k.pc = "awaitRejected"
  /\ inflight' = inflight \ {k}
  /\ last' = Obs(k.op, "resume", k.sid, k.conn, "ConnectionFailed")
  /\ UNCHANGED <<servers, tools, conns, permVars, execs>>

\* connectServer after await connection.connect(): servers.set, then
\* getCapabilities(), which throws unless the status is connected
ConnectServerRegister(k) ==
  /\ k \in inflight /\ k.op = "connectServer" /\ k.pc = "awaitConnect"
  /\ servers' = [servers EXCEPT ![k.sid] = k.conn]
  /\ IF conns[k.conn].status = "connected"
     THEN /\ inflight' = (inflight \ {k}) \cup {[k EXCEPT !.pc = "awaitCaps"]}
          /\ last' = Obs("connectServer", "resume", k.sid, k.conn, "pending")
     ELSE /\ inflight' = inflight \ {k}
          /\ last' = Obs("connectServer", "resume", k.sid, k.conn, "NotConnected")
  /\ UNCHANGED <<tools, conns, permVars, execs>>

\* connectServer after await connection.getCapabilities(): the register loop
ConnectServerTools(k) ==
  /\ k \in inflight /\ k.op = "connectServer" /\ k.pc = "awaitCaps"
  /\ tools' = RegisterAll(tools, k.sid, conns[k.conn].capabilities)
  /\ inflight' = inflight \ {k}
  /\ last' = Obs("connectServer", "resume", k.sid, k.conn, "ok")
  /\ UNCHANGED <<servers, conns, permVars, execs>>

\* ----------------------------------------------- MCPClient.disconnectServer
\* disconnectServer that takes an unknown id for a server already gone
DisconnectServerStartLenient(sid) ==
  IF ~ServerExists(sid)
  THEN /\ tools' = UnregisterAll(tools, ListTools(tools, [serverId |-> sid]))
       /\ last' = Obs("disconnectServer", "call", sid, 0, "ok")
       /\ UNCHANGED <<servers, conns, inflight, permVars, execs>>
  ELSE LET k == [op |-> "disconnectServer", sid |-> sid, conn |-> servers[sid],
                 pc |-> "awaitDisconnect", n |-> 1]
       IN  /\ k \notin inflight
           /\ conns' = [conns EXCEPT ![servers[sid]] = ConnDisconnect(@)]
           /\ inflight' = inflight \cup {k}
           /\ last' = Obs("disconnectServer", "call", sid, servers[sid], "pending")
           /\ UNCHANGED <<servers, tools, permVars, execs>>

DisconnectServerStart(sid) ==
  IF ~ServerExists(sid)
  THEN /\ last' = Obs("disconnectServer", "call", sid, 0, "ServerNotFound")
       /\ UNCHANGED <<servers, tools, conns, inflight, permVars, execs>>
  ELSE LET k == [op |-> "disconnectServer", sid |-> sid, conn |-> servers[sid],
                 pc |-> "awaitDisconnect", n |-> 1]
       IN  /\ k \notin inflight
               /\ conns' = [conns EXCEPT ![servers[sid]] = ConnDisconnect(@)]
           /\ inflight' = inflight \cup {k}
           /\ last' = Obs("disconnectServer", "call", sid, servers[sid], "pending")
           /\ UNCHANGED <<servers, tools, permVars, execs>>

\* disconnectServer after await connection.disconnect()
DisconnectServerFinish(k) ==
  /\ k \in inflight /\ k.op = "disconnectServer" /\ k.pc = "awaitDisconnect"
  /\ servers' = [servers EXCEPT ![k.sid] = 0]
  /\ tools' = UnregisterAll(tools, ListTools(tools, [serverId |-> k.sid]))
  /\ inflight' = inflight \ {k}
  /\ last' = Obs("disconnectServer", "resume", k.sid, k.conn, "ok")
  /\ UNCHANGED <<conns, permVars, execs>>

\* --------------------------------------------------------- socket events
\* socket.onclose of an open websocket
TransportClose(c) ==
  /\ c \in ConnIds
  /\ conns[c].options.transport = "websocket" /\ conns[c].socket
  /\ conns[c].status = "connected"
  /\ conns[c].options.reconnect => conns[c].reconnectTimers < MaxTimers
  /\ ~MicroPending
  /\ conns' = [conns EXCEPT ![c] = HandleDisconnect([@ EXCEPT !.status = "disconnected"])]
  /\ last' = Obs("transportClose", "event", conns[c].sid, c, "ok")
  /\ UNCHANGED <<servers, tools, inflight, permVars, execs>>

\* the timer armed by handleDisconnect fires: this.connect().catch(...)
ReconnectFire(c) ==
  /\ c \in ConnIds
  /\ conns[c].reconnectTimers > 0
  /\ CountsAttempts(conns[c]) => conns[c].autoAttempts < MaxAttempts
  /\ ~MicroPending
  /\ LET r == ConnectSync([conns[c] EXCEPT
                             !.reconnectTimers = @ - 1,
                             !.autoAttempts =
                               IF CountsAttempts(conns[c]) THEN @ + 1 ELSE @])
         k == [op |-> "connect", sid |-> conns[c].sid, conn |-> c, pc |-> r[2],
               n |-> FreshCall(c)]
     IN  /\ r[2] # "returned" => Cardinality(ConnectsInFlight(c)) < MaxCalls
         /\ conns' = [conns EXCEPT ![c] = r[1]]
         /\ inflight' = IF r[2] = "returned" THEN inflight ELSE inflight \cup {k}
         /\ last' = Obs("reconnect", "event", conns[c].sid, c,
                        IF r[2] = "returned" THEN "ok" ELSE "pending")
  /\ UNCHANGED <<servers, tools, permVars, execs>>

\* ------------------------------------ MCPServerConnection, called directly
Construct(options) ==
  /\ conns = <<>>
  /\ conns' = <<NewConnection("fs", options)>>
  /\ last' = Obs("construct", "call", "fs", 1, "ok")
  /\ UNCHANGED <<servers, tools, inflight, permVars, execs>>

Connect(c) ==
  /\ c \in ConnIds
  /\ LET r == ConnectSync([conns[c] EXCEPT !.autoAttempts = 0])
         k == [op |-> "connect", sid |-> conns[c].sid, conn |-> c, pc |-> r[2],
               n |-> FreshCall(c)]
     IN  /\ r[2] # "returned" => Cardinality(ConnectsInFlight(c)) < MaxCalls
         /\ conns' = [conns EXCEPT ![c] = r[1]]
         /\ inflight' = IF r[2] = "returned" THEN inflight ELSE inflight \cup {k}
         /\ last' = Obs("connect", "call", conns[c].sid, c,
                        IF r[2] = "returned" THEN "ok" ELSE "pending")
  /\ UNCHANGED <<servers, tools, permVars, execs>>

Disconnect(c) ==
  /\ c \in ConnIds
  /\ conns' = [conns EXCEPT ![c] = ConnDisconnect(@)]
  /\ last' = [Obs("disconnect", "call", conns[c].sid, c,
                  IF conns[c].status = "connected" THEN "ok" ELSE "noop")
                EXCEPT !.req = IF conns[c].status = "connected"
                               THEN Cardinality(conns[c].pendingRequests)
                               ELSE 0]
  /\ UNCHANGED <<servers, tools, inflight, permVars, execs>>

SendRequest(c) ==
  /\ c \in ConnIds
  /\ conns[c].requestId < MaxRequests
  /\ IF conns[c].status # "connected"
     THEN /\ last' = Obs("sendRequest", "call", conns[c].sid, c, "NotConnected")
          /\ UNCHANGED conns
     ELSE /\ conns' = [conns EXCEPT ![c] = ConnSendRequest(@)]
          /\ last' = [Obs("sendRequest", "call", conns[c].sid, c, "pending")
                        EXCEPT !.req = conns[c].requestId + 1]
  /\ UNCHANGED <<servers, tools, inflight, permVars, execs>>

\* socket.onmessage of an open websocket
Messages(c) ==
  [wellFormed : BOOLEAN, id : 0..conns[c].requestId + 1, error : BOOLEAN]

InboundMessage(c, msg) ==
  /\ c \in ConnIds
  /\ conns[c].options.transport = "websocket" /\ conns[c].socket
  /\ conns[c].status = "connected"
  /\ ~MicroPending
  /\ conns' = [conns EXCEPT ![c] = ConnHandleMessage(@, msg)]
  /\ last' = [Obs("handleMessage", "event", conns[c].sid, c,
                  IF conns'[c] = conns[c] THEN "ignored" ELSE "settled")
                EXCEPT !.req = msg.id]
  /\ UNCHANGED <<servers, tools, inflight, permVars, execs>>

\* the timer of the simulated http reply fires
HttpReply(c, id) ==
  /\ c \in ConnIds
  /\ id \in conns[c].httpReplies
  /\ ~MicroPending
  /\ conns' = [conns EXCEPT ![c] =
       ConnHandleMessage([@ EXCEPT !.httpReplies = @ \ {id}],
                         [wellFormed |-> TRUE, id |-> id, error |-> FALSE])]
  /\ last' = [Obs("handleMessage", "event", conns[c].sid, c,
                  IF id \in conns[c].pendingRequests THEN "settled" ELSE "ignored")
                EXCEPT !.req = id]
  /\ UNCHANGED <<servers, tools, inflight, permVars, execs>>

\* a request's timeout timer fires
RequestTimeout(c, id) ==
  /\ c \in ConnIds
  /\ id \in conns[c].timers
  /\ ~MicroPending
  /\ conns' = [conns EXCEPT ![c] = ConnTimeout(@, id)]
  /\ last' = [Obs("timeout", "event", conns[c].sid, c, "RequestTimeout")
                EXCEPT !.req = id]
  /\ UNCHANGED <<servers, tools, inflight, permVars, execs>>

\* options.reconnect is read only after a socket closed
\* -------------------------------------------------- MCPPermissionManager
Has(f, key) == key \in DOMAIN f

\* an optional number of a rule is truthy: set and not 0
TruthyNum(rule, field) == Has(rule, field) /\ rule[field] # 0

GetCallCount(agentId, toolId) ==
  IF ~Has(callCounts, agentId) THEN 0
  ELSE IF ~Has(callCounts[agentId], toolId) THEN 0
  ELSE callCounts[agentId][toolId]

GetCost(agentId, toolId) ==
  IF ~Has(costTracking, agentId) THEN 0
  ELSE IF ~Has(costTracking[agentId], toolId) THEN 0
  ELSE costTracking[agentId][toolId]

Denied(kind, amount, limit, keys) ==
  [allowed |-> FALSE, requiresApproval |-> FALSE,
   reason |-> [kind |-> kind, amount |-> amount, limit |-> limit, keys |-> keys]]

Allowed(requiresApproval) ==
  [allowed |-> TRUE, requiresApproval |-> requiresApproval,
   reason |-> [kind |-> "none", amount |-> 0, limit |-> 0, keys |-> {}]]

\* checkPermission with a reason that lists every key of params
CheckPermissionListsAllKeys(agentId, toolId, params) ==
  IF ~Has(permissions, agentId)
  THEN Denied("Agent does not have any permissions", 0, 0, {})
  ELSE IF ~Has(permissions[agentId], toolId)
  THEN Denied("Agent does not have permission for this tool", 0, 0, {})
  ELSE
    LET rule == permissions[agentId][toolId]
        callCount == GetCallCount(agentId, toolId)
        cost == GetCost(agentId, toolId)
        invalidParams ==
          IF params.defined /\ Has(rule, "allowedParameters")
             /\ params.keys \ rule.allowedParameters # {}
          THEN params.keys
          ELSE {}
    IN  IF TruthyNum(rule, "maxCallsPerSession")
           /\ callCount >= rule.maxCallsPerSession
        THEN Denied("Call limit exceeded", callCount, rule.maxCallsPerSession, {})
        ELSE IF TruthyNum(rule, "maxCostPerSession")
                /\ cost >= rule.maxCostPerSession
        THEN Denied("Cost limit exceeded", cost, rule.maxCostPerSession, {})
        ELSE IF invalidParams # {}
        THEN Denied("Invalid parameters", 0, 0, invalidParams)
        ELSE Allowed(Has(rule, "requireApproval") /\ rule.requireApproval)

CheckPermission(agentId, toolId, params) ==
  IF ~Has(permissions, agentId)
  THEN Denied("Agent does not have any permissions", 0, 0, {})
  ELSE IF ~Has(permissions[agentId], toolId)
  THEN Denied("Agent does not have permission for this tool", 0, 0, {})
  ELSE
    LET rule == permissions[agentId][toolId]
        callCount == GetCallCount(agentId, toolId)
        cost == GetCost(agentId, toolId)
        invalidParams ==
          IF params.defined /\ Has(rule, "allowedParameters")
          THEN params.keys \ rule.allowedParameters
          ELSE {}
    IN  IF TruthyNum(rule, "maxCallsPerSession")
           /\ callCount >= rule.maxCallsPerSession
        THEN Denied("Call limit exceeded", callCount, rule.maxCallsPerSession, {})
        ELSE IF TruthyNum(rule, "maxCostPerSession")
                /\ cost >= rule.maxCostPerSession
        THEN Denied("Cost limit exceeded", cost, rule.maxCostPerSession, {})
        ELSE IF invalidParams # {}
        THEN Denied("Invalid parameters", 0, 0, invalidParams)
        ELSE Allowed(Has(rule, "requireApproval") /\ rule.requireApproval)

\* the pairs that have a rule
RulePairs ==
  {p \in Callers \X PermToolIds :
     Has(permissions, p[1]) /\ Has(permissions[p[1]], p[2])}

\* the rule (agent, tool) has, as a sequence of at most one rule
RuleOf(agentId, toolId) ==
  IF <<agentId, toolId>> \in RulePairs
  THEN <<permissions[agentId][toolId]>>
  ELSE <<>>

\* at most MaxRules pairs are given a rule
RuleBudget(agentId, toolId) ==
  <<agentId, toolId>> \in RulePairs \/ Cardinality(RulePairs) < MaxRules

\* setPermission that starts a fresh rule map for the agent
SetPermissionFreshMap(agentId, toolId, options) ==
  /\ permissions' = (agentId :> (toolId :> options)) @@ permissions
  /\ last' = [tool |-> toolId, caller |-> agentId, rule |-> options,
              previous |-> RuleOf(agentId, toolId)]
               @@ Obs("setPermission", "call", Undefined, 0, "ok")
  /\ UNCHANGED <<servers, tools, conns, inflight, callCounts, costTracking, execs>>

\* last.rule is the rule passed, last.previous the rule it replaces
SetPermission(agentId, toolId, options) ==
  /\ permissions' =
       LET agentPermissions ==
             IF Has(permissions, agentId) THEN permissions[agentId] ELSE <<>>
       IN  (agentId :> ((toolId :> options) @@ agentPermissions)) @@ permissions
  /\ last' = [tool |-> toolId, caller |-> agentId, rule |-> options,
              previous |-> RuleOf(agentId, toolId)]
               @@ Obs("setPermission", "call", Undefined, 0, "ok")
  /\ UNCHANGED <<servers, tools, conns, inflight, callCounts, costTracking, execs>>

\* checkPermission, called directly: it reads the maps and writes nothing
CheckPermissionCall(agentId, toolId, params) ==
  /\ last' = [op |-> "checkPermission", step |-> "call", sid |-> Undefined,
              conn |-> 0, req |-> 0, tool |-> toolId, caller |-> agentId,
              result |-> "ok", params |-> params,
              check |-> CheckPermission(agentId, toolId, params)]
  /\ UNCHANGED <<servers, tools, conns, inflight, permVars, execs>>

\* the pairs that have a call counter, and the calls on record
UsagePairs ==
  {p \in Callers \X PermToolIds :
     Has(callCounts, p[1]) /\ Has(callCounts[p[1]], p[2])}

RECURSIVE SumCalls(_)
SumCalls(S) ==
  IF S = {} THEN 0
  ELSE LET p == CHOOSE q \in S : TRUE
       IN  callCounts[p[1]][p[2]] + SumCalls(S \ {p})

\* a cost is truthy: a number other than 0
TruthyCost(cost) == cost.defined /\ cost.value # 0

RecordToolUsage(agentId, toolId, cost) ==
  /\ SumCalls(UsagePairs) < MaxUsage
  /\ callCounts' =
       LET agentCallCounts ==
             IF Has(callCounts, agentId) THEN callCounts[agentId] ELSE <<>>
           currentCount ==
             IF Has(agentCallCounts, toolId) THEN agentCallCounts[toolId] ELSE 0
       IN  (agentId :> ((toolId :> currentCount + 1) @@ agentCallCounts))
             @@ callCounts
  /\ costTracking' =
       IF TruthyCost(cost)
       THEN LET agentCosts ==
                  IF Has(costTracking, agentId) THEN costTracking[agentId] ELSE <<>>
                currentCost ==
                  IF Has(agentCosts, toolId) THEN agentCosts[toolId] ELSE 0
            IN  (agentId :> ((toolId :> currentCost + cost.value) @@ agentCosts))
                  @@ costTracking
       ELSE costTracking
  /\ last' = [Obs("recordToolUsage", "call", Undefined, 0, "ok") EXCEPT
                !.tool = toolId, !.caller = agentId]
  /\ UNCHANGED <<servers, tools, conns, inflight, permissions, execs>>

\* the counters of an agent, as getCallCount and getCost report them
Usage(agentId) ==
  [t \in PermToolIds |->
     [calls |-> GetCallCount(agentId, t), cost |-> GetCost(agentId, t)]]

\* resetSession that forgets the call counts only
ResetSessionKeepsCost(agentId) ==
  /\ callCounts' = [a \in DOMAIN callCounts \ {agentId} |-> callCounts[a]]
  /\ costTracking' = costTracking
  /\ last' = [tool |-> Undefined, caller |-> agentId,
              cleared |-> Usage(agentId)]
               @@ Obs("resetSession", "call", Undefined, 0, "ok")
  /\ UNCHANGED <<servers, tools, conns, inflight, permissions, execs>>

\* Map.delete of the agent's counters; last.cleared keeps what they were
ResetSession(agentId) ==
  /\ callCounts' = [a \in DOMAIN callCounts \ {agentId} |-> callCounts[a]]
  /\ costTracking' = [a \in DOMAIN costTracking \ {agentId} |-> costTracking[a]]
  /\ last' = [tool |-> Undefined, caller |-> agentId,
              cleared |-> Usage(agentId)]
               @@ Obs("resetSession", "call", Undefined, 0, "ok")
  /\ UNCHANGED <<servers, tools, conns, inflight, permissions, execs>>

\* ------------------------------------------ MCPServerConnection.executeTool
\* executeTool without its status check
ConnExecuteToolUnchecked(c, toolName, params) ==
  IF toolName # "echo" THEN "ToolNotFoundOnServer"
  ELSE IF ~params.defined THEN "TypeError"
  ELSE IF "message" \in params.truthy THEN "ok"
  ELSE "ToolNotFoundOnServer"

\* the simulated reply, or the error thrown
ConnExecuteTool(c, toolName, params) ==
  IF c.status # "connected" THEN "NotConnected"
  ELSE IF toolName # "echo" THEN "ToolNotFoundOnServer"
  ELSE IF ~params.defined THEN "TypeError"
  ELSE IF "message" \in params.truthy THEN "ok"
  ELSE "ToolNotFoundOnServer"

\* the errors thrown by ServerConnection.executeTool and its one result:
\* the call reached the connection
ReachedServer ==
  {"ok", "NotConnected", "ToolNotFoundOnServer", "TypeError"}

\* ------------------------------------------------- MCPClient.executeTool
\* context carries the caller; approve is what the operator would answer
\* if asked
ExecuteToolResult(toolId, params) ==
  IF ~HasTool(tools, toolId) THEN "ToolNotFound"
  ELSE LET tool == GetTool(tools, toolId)
       IN  IF ~ServerExists(tool.serverId) THEN "ServerNotConnected"
           ELSE ConnExecuteTool(conns[servers[tool.serverId]], tool.name, params)

ExecCalls == LET S == DOMAIN execs IN
  IF S = {} THEN 0 ELSE
  LET RECURSIVE Sum(_)
      Sum(T) == IF T = {} THEN 0
                ELSE LET x == CHOOSE x \in T : TRUE
                     IN execs[x].calls + Sum(T \ {x})
  IN Sum(S)

ExecuteTool(toolId, params, caller, approve) ==
  /\ ExecCalls < MaxExec
  /\ LET result == ExecuteToolResult(toolId, params)
         e == execs[<<caller, toolId>>]
     IN  /\ execs' = [execs EXCEPT ![<<caller, toolId>>] =
                        [calls |-> e.calls + 1,
                         ok |-> e.ok + (IF result = "ok" THEN 1 ELSE 0)]]
         /\ last' = [op |-> "executeTool", step |-> "call", sid |-> Undefined, conn |-> 0,
                     req |-> 0,
                     tool |-> toolId, caller |-> caller, result |-> result,
                     params |-> params, approve |-> approve,
                     check |-> CheckPermission(caller, toolId, params)]
  /\ UNCHANGED <<servers, tools, conns, inflight, permVars>>

\* ------------------------------------------------------- MCPToolRegistry
RegisterToolCall(tool) ==
  /\ tools' = RegisterTool(tools, tool)
  /\ last' = [Obs("registerTool", "call", tool.serverId, 0, "ok") EXCEPT
                !.tool = tool.id]
  /\ UNCHANGED <<servers, conns, inflight, permVars, execs>>

UnregisterToolCall(toolId) ==
  /\ tools' = UnregisterTool(tools, toolId)
  /\ last' = [Obs("unregisterTool", "call", Undefined, 0, "ok") EXCEPT
                !.tool = toolId]
  /\ UNCHANGED <<servers, conns, inflight, permVars, execs>>

\* listTools reads the catalog; last keeps the filter and the array returned
ListToolsCall(filter) ==
  /\ last' = [filter |-> filter, listed |-> ListTools(tools, filter)]
               @@ Obs("listTools", "call", Undefined, 0, "ok")
  /\ UNCHANGED <<servers, tools, conns, inflight, permVars, execs>>

ConnOptions ==
  {o \in [transport : Transports, reconnect : BOOLEAN] :
     o.reconnect => o.transport = "websocket"}

Next ==
  \/ \E sid \in ServerIds, o \in ConnOptions : ConnectServerStart(sid, o)
  \/ \E k \in inflight : SocketOpen(k)
  \/ \E k \in inflight : SocketError(k)
  \/ \E k \in inflight : FetchDone(k)
  \/ \E k \in inflight : ConnectRejected(k)
  \/ \E k \in inflight : ConnectServerRegister(k)
  \/ \E k \in inflight : ConnectServerTools(k)
  \/ \E sid \in ServerIds : DisconnectServerStart(sid)
  \/ \E k \in inflight : DisconnectServerFinish(k)
  \/ \E c \in ConnIds : TransportClose(c)
  \/ \E c \in ConnIds : ReconnectFire(c)

Spec == Init /\ [][Next]_vars

\* executeTool and the permission manager beside one server "fs"
ExecOptions == {o \in ConnOptions : o.transport = "http"}

NextExec ==
  \/ \E o \in ExecOptions : ConnectServerStart("fs", o)
  \/ \E k \in inflight : FetchDone(k)
  \/ \E k \in inflight : ConnectServerRegister(k)
  \/ \E k \in inflight : ConnectServerTools(k)
  \/ DisconnectServerStart("fs")
  \/ \E k \in inflight : DisconnectServerFinish(k)
  \/ \E a \in Callers, t \in ExecToolIds, r \in RuleInputs :
        RuleBudget(a, t) /\ SetPermission(a, t, r)
  \/ \E t \in ExecToolIds, p \in ParamInputs, a \in Callers, approve \in BOOLEAN :
        ExecuteTool(t, p, a, approve)

SpecExec == Init /\ [][NextExec]_vars

\* executeTool beside the whole life of one websocket server "fs": socket
\* events and reconnects (SpecExec has the http server); the caller and the operator's answer,
\* which the facade never reads, are fixed
LifeOptions == {o \in ConnOptions : o.transport = "websocket"}

NextExecLife ==
  \/ \E o \in LifeOptions : ConnectServerStart("fs", o)
  \/ \E k \in inflight : SocketOpen(k)
  \/ \E k \in inflight : SocketError(k)
  \/ \E k \in inflight : FetchDone(k)
  \/ \E k \in inflight : ConnectRejected(k)
  \/ \E k \in inflight : ConnectServerRegister(k)
  \/ \E k \in inflight : ConnectServerTools(k)
  \/ DisconnectServerStart("fs")
  \/ \E k \in inflight : DisconnectServerFinish(k)
  \/ \E c \in ConnIds : TransportClose(c)
  \/ \E c \in ConnIds : ReconnectFire(c)
  \/ \E t \in ExecToolIds, p \in ParamInputs :
        ExecuteTool(t, p, "agent1", FALSE)

SpecExecLife == Init /\ [][NextExecLife]_vars

\* the permission manager, driven directly
NextPerm ==
  \/ \E a \in Callers, t \in PermToolIds, r \in PermRuleInputs :
        RuleBudget(a, t) /\ SetPermission(a, t, r)
  \/ \E a \in Callers, t \in PermToolIds, p \in PermParamInputs :
        CheckPermissionCall(a, t, p)
  \/ \E a \in Callers, t \in PermToolIds, cost \in CostInputs :
        RecordToolUsage(a, t, cost)
  \/ \E a \in Callers : ResetSession(a)

SpecPerm == Init /\ [][NextPerm]_vars

\* the permission manager with costs of either sign
NextUsage ==
  \/ \E a \in Callers, t \in PermToolIds, r \in PermRuleInputs :
        RuleBudget(a, t) /\ SetPermission(a, t, r)
  \/ \E a \in Callers, t \in PermToolIds, p \in PermParamInputs :
        CheckPermissionCall(a, t, p)
  \/ \E a \in Callers, t \in PermToolIds, cost \in SignedCostInputs :
        RecordToolUsage(a, t, cost)
  \/ \E a \in Callers : ResetSession(a)

SpecUsage == Init /\ [][NextUsage]_vars

\* the tool registry, driven directly
RegistryTools ==
  { [id |-> "fs:echo", serverId |-> "fs", name |-> "echo",
     description |-> "Echo it", category |-> "io"],
    [id |-> "fs:echo", serverId |-> "fs", name |-> "echo",
     description |-> "find"],
    [id |-> ":echo", serverId |-> "", name |-> "echo",
     description |-> "Echo it", category |-> ""],
    [id |-> "fs:Grep", serverId |-> "fs", name |-> "Grep",
     description |-> "find", category |-> "io"] }

NoFilter == [f \in {} |-> ""]
FilterInputs ==
  { NoFilter, [serverId |-> "fs"], [serverId |-> ""],
    [category |-> "io"], [category |-> ""],
    [search |-> "EC"], [search |-> "re"], [search |-> "x"], [search |-> ""],
    [serverId |-> "fs", category |-> "io", search |-> "re"],
    [serverId |-> "fs", search |-> "EC"] }

NextRegistry ==
  \/ \E tool \in RegistryTools : RegisterToolCall(tool)
  \/ \E tool \in RegistryTools : UnregisterToolCall(tool.id)
  \/ \E filter \in FilterInputs : ListToolsCall(filter)

SpecRegistry == Init /\ [][NextRegistry]_vars

\* the permission manager with call limits only, on any number of pairs
LimitRuleInputs == {[maxCallsPerSession |-> 1], [maxCallsPerSession |-> 2]}

NextRules ==
  \/ \E a \in Callers, t \in PermToolIds, r \in LimitRuleInputs :
        SetPermission(a, t, r)
  \/ \E a \in Callers, t \in PermToolIds : CheckPermissionCall(a, t, NoParams)
  \/ \E a \in Callers, t \in PermToolIds, cost \in {NoCost, Cost(1)} :
        RecordToolUsage(a, t, cost)
  \/ \E a \in Callers : ResetSession(a)

SpecRules == Init /\ [][NextRules]_vars

\* one connection object, driven directly
\* Construct makes one connection object: the first of conns
DirectConns == {1}

NextConn ==
  \/ \E o \in ConnOptions : Construct(o)
  \/ \E c \in ConnIds : Connect(c)
  \/ \E k \in inflight : SocketOpen(k)
  \/ \E k \in inflight : SocketError(k)
  \/ \E k \in inflight : FetchDone(k)
  \/ \E k \in inflight : ConnectRejected(k)
  \/ \E c \in ConnIds : Disconnect(c)
  \/ \E c \in ConnIds : TransportClose(c)
  \/ \E c \in ConnIds : ReconnectFire(c)
  \/ \E c \in ConnIds : SendRequest(c)
  \/ \E c \in ConnIds : \E msg \in Messages(c) : InboundMessage(c, msg)
  \/ \E c \in ConnIds : \E id \in conns[c].httpReplies : HttpReply(c, id)
  \/ \E c \in ConnIds : \E id \in conns[c].timers : RequestTimeout(c, id)

SpecConn == Init /\ [][NextConn]_vars

\* the event loop: a queued continuation runs, and an armed timeout timer
\* fires once its delay is over, however often continuations get in its way
ConnFairness ==
  /\ WF_vars(\E k \in inflight : FetchDone(k))
  /\ WF_vars(\E k \in inflight : ConnectRejected(k))
  /\ \A c \in DirectConns : \A id \in 1..MaxRequests :
       SF_vars(RequestTimeout(c, id))

SpecConnFair == SpecConn /\ ConnFairness

\* one websocket connection whose options bound the reconnect attempts:
\* its connects, socket events and reconnects
BoundedOptions ==
  {[transport |-> "websocket", reconnect |-> TRUE, maxReconnectAttempts |-> 1]}

NextReconnect ==
  \/ \E o \in BoundedOptions : Construct(o)
  \/ \E c \in ConnIds : Connect(c)
  \/ \E k \in inflight : SocketOpen(k)
  \/ \E k \in inflight : SocketError(k)
  \/ \E k \in inflight : FetchDone(k)
  \/ \E k \in inflight : ConnectRejected(k)
  \/ \E c \in ConnIds : Disconnect(c)
  \/ \E c \in ConnIds : TransportClose(c)
  \/ \E c \in ConnIds : ReconnectFire(c)

SpecReconnect == Init /\ [][NextReconnect]_vars

\* =================================================================== claims

\* the executeTool call just made resolved its tool and found its server
\* registered (steps 1 and 2 of the facade passed)
ExecResolved ==
  /\ last.op = "executeTool"
  /\ last.result \notin {"ToolNotFound", "ServerNotConnected"}

\* C1: for every caller c and tool t, the permission manager's call counter
\* for (c, t) equals the number of executeTool calls for (c, t) that
\* returned a result: usage is recorded once per success, never otherwise.
C1_UsageRecordedOncePerSuccess ==
  \A p \in Callers \X ExecToolIds : GetCallCount(p[1], p[2]) = execs[p].ok

\* C2: an executeTool call whose permission check is denied (no rule
\* included) fails with PermissionDenied and never reaches
\* ServerConnection.executeTool.
C2_DeniedNeverReachesServer ==
  (ExecResolved /\ ~last.check.allowed) =>
     (last.result = "PermissionDenied" /\ last.result \notin ReachedServer)

\* C3: with maxCallsPerSession = N on the rule of (c, t), the (N+1)-th
\* executeTool call for (c, t) is denied with PermissionDenied; stated for
\* the case in which the N calls before it all succeeded.
C3_CallBeyondLimitDenied ==
  \A p \in RulePairs :
    LET rule == permissions[p[1]][p[2]]
        priorOk == execs[p].ok - (IF last.result = "ok" THEN 1 ELSE 0)
    IN  ( /\ ExecResolved
          /\ last.caller = p[1] /\ last.tool = p[2]
          /\ TruthyNum(rule, "maxCallsPerSession")
          /\ execs[p].calls = rule.maxCallsPerSession + 1
          /\ priorOk = rule.maxCallsPerSession )
        => ( /\ last.result = "PermissionDenied"
             /\ last.check.reason.amount = rule.maxCallsPerSession
             /\ last.check.reason.limit = rule.maxCallsPerSession )

\* C4: when the rule of (c, t) requires approval and the approval resolves
\* false, executeTool fails with ApprovalDenied, the tool is not sent to the
\* server connection and no usage is recorded.
C4_ApprovalDeniedBlocksCall ==
  ( /\ ExecResolved
    /\ last.check.allowed /\ last.check.requiresApproval
    /\ ~last.approve )
  => ( /\ last.result = "ApprovalDenied"
       /\ last.result \notin ReachedServer
       /\ GetCallCount(last.caller, last.tool) = 0 )

\* the catalog's descriptors of server sid, and those of the other servers
ToolsOf(ts, sid) == SelectSeq(ts, LAMBDA t : t.serverId = sid)
ToolsNotOf(ts, sid) == SelectSeq(ts, LAMBDA t : t.serverId # sid)

\* C5: a connection registered for a (non-empty) server id is never
\* replaced by another one: a second connectServer for the id does not
\* succeed, whatever the interleaving of the two calls.
C5_RegistrationNeverReplaced ==
  [][\A s \in ServerIds \ {""} :
       (servers[s] # 0 /\ servers'[s] # 0) => servers'[s] = servers[s]]_vars

\* C6: connectServer(id, ...) called while id is registered in the facade
\* fails with the duplicate-server-id error and changes nothing: the server
\* map, every connection, the catalog and the calls in flight stay as they
\* were and no connection is created.
C6_DuplicateConnectChangesNothing ==
  [][(last'.op = "connectServer" /\ last'.step = "call"
      /\ servers[last'.sid] # 0)
     => (/\ last'.result = "DuplicateServerId"
         /\ UNCHANGED <<servers, tools, conns, inflight>>)]_vars

\* a duplicate connectServer was refused while the first registration was
\* connected and had its tools in the catalog
C6_Witness ==
  /\ last.op = "connectServer" /\ last.result = "DuplicateServerId"
  /\ servers[last.sid] # 0
  /\ conns[servers[last.sid]].status = "connected"
  /\ ToolsOf(tools, last.sid) # <<>>

\* C7: every descriptor in the catalog (of a server with a non-empty id)
\* names a server whose connection in the facade has status connected.
C7_CatalogServersConnected ==
  \A i \in 1..Len(tools) :
    tools[i].serverId # "" =>
      /\ servers[tools[i].serverId] # 0
      /\ conns[servers[tools[i].serverId]].status = "connected"

\* C8: the step of disconnectServer(id) that clears the catalog leaves no
\* descriptor of id and leaves the descriptors of every other server as they
\* were; and no step at all leaves a part of a server's descriptors behind.
C8_DisconnectRemovesOnlyOwnTools ==
  [][/\ (last'.op = "disconnectServer" /\ last'.result = "ok")
        => /\ ToolsOf(tools', last'.sid) = <<>>
           /\ ToolsNotOf(tools', last'.sid) = ToolsNotOf(tools, last'.sid)
     /\ \A s \in ServerIds :
          \/ ToolsOf(tools', s) = <<>>
          \/ Len(ToolsOf(tools', s)) >= Len(ToolsOf(tools, s))]_vars

\* C9: every request issued on a connection is in the pending map until it
\* is settled, and is settled exactly once, by a response, by its timeout or
\* by the connection closing: no outcome is handed over after another.
C9_SettledExactlyOnce ==
  \A c \in ConnIds :
    \A id \in 1..conns[c].requestId :
      /\ id \in conns[c].pendingRequests => conns[c].settled[id] = <<>>
      /\ id \notin conns[c].pendingRequests => Len(conns[c].settled[id]) = 1
      /\ id \in conns[c].timers => id \in conns[c].pendingRequests

\* a message arrived for a request that was already settled by its timeout
\* or by the connection closing, and was ignored
C9_Witness ==
  /\ last.op = "handleMessage" /\ last.result = "ignored"
  /\ last.req \in 1..conns[last.conn].requestId
  /\ conns[last.conn].settled[last.req] \in {<<"timeout">>, <<"closed">>}

\* C10: disconnect() on a connected connection rejects every pending
\* request with connection-closed once, leaves no pending entry and no armed
\* timeout timer and sets the status to disconnected; on a connection that
\* is not connected it changes nothing.
C10_DisconnectRejectsPending ==
  [][(last'.op = "disconnect" /\ last'.step = "call") =>
       LET c == last'.conn
       IN  IF conns[c].status = "connected"
           THEN /\ conns'[c].status = "disconnected"
                /\ conns'[c].pendingRequests = {}
                /\ conns'[c].timers = {}
                /\ \A id \in 1..conns[c].requestId :
                     conns'[c].settled[id] =
                       IF id \in conns[c].pendingRequests
                       THEN Append(conns[c].settled[id], "closed")
                       ELSE conns[c].settled[id]
           ELSE conns' = conns]_vars

\* disconnect() rejected two pending requests at once
C10_Witness ==
  /\ last.op = "disconnect" /\ last.result = "ok" /\ last.req = 2
  /\ conns[last.conn].status = "disconnected"
  /\ conns[last.conn].settled = <<(<<"closed">>), (<<"closed">>)>>

StatusEdges ==
  { <<"disconnected", "connecting">>, <<"connecting", "connected">>,
    <<"connecting", "error">>, <<"connected", "disconnected">>,
    <<"error", "connecting">> }

\* every assignment of the sequence path, made to a status that starts as
\* from, leaves the status as it is or follows an edge
AlongEdges(from, path) ==
  \A i \in 1..Len(path) :
    LET prev == IF i = 1 THEN from ELSE path[i - 1]
    IN  prev = path[i] \/ <<prev, path[i]>> \in StatusEdges

\* C13: the status of a connection changes only along the edges
\* disconnected -> connecting, connecting -> connected, connecting -> error,
\* connected -> disconnected and error -> connecting; the statuses a
\* connect() call assigns before its first await are taken one by one.
C13_StatusFollowsEdges ==
  [][\A c \in ConnIds :
       LET assigned ==
             IF /\ last'.op \in {"connect", "reconnect"}
                /\ last'.step \in {"call", "event"}
                /\ last'.conn = c
             THEN ConnectStatuses(conns[c])
             ELSE IF conns'[c].status # conns[c].status
                  THEN <<conns'[c].status>>
                  ELSE <<>>
       IN  /\ AlongEdges(conns[c].status, assigned)
           /\ assigned # <<>> => assigned[Len(assigned)] = conns'[c].status]_vars

\* C12: every request issued on a connected connection is eventually
\* resolved, by a response, by its timeout or by the connection closing,
\* given that armed timers fire: its entry leaves the pending map and its
\* caller has been handed exactly one outcome.
C12_EveryRequestResolved ==
  \A c \in DirectConns : \A id \in 1..MaxRequests :
    (c \in ConnIds /\ id \in conns[c].pendingRequests)
      ~> ( /\ c \in ConnIds
           /\ id \in 1..conns[c].requestId
           /\ id \notin conns[c].pendingRequests
           /\ Len(conns[c].settled[id]) = 1 )

\* a request sent over a websocket, which nothing ever answered, was
\* resolved by its timeout while another request was still pending
C12_Witness ==
  /\ last.op = "timeout"
  /\ conns[last.conn].options.transport = "websocket"
  /\ conns[last.conn].settled[last.req] = <<"timeout">>
  /\ conns[last.conn].pendingRequests # {}

\* C14: once disconnect() has disconnected a connection, no reconnect timer
\* armed earlier by a transport close makes a connect attempt: the step
\* that follows the disconnect() is never the callback of such a timer.
C14_DisconnectCancelsReconnect ==
  [][(last.op = "disconnect" /\ last.step = "call" /\ last.result = "ok")
       => last'.op # "reconnect"]_vars

\* C15: a connection configured with maxReconnectAttempts never makes more
\* automatic reconnect attempts than that since the last connect() of a
\* caller.
C15_ReconnectsBounded ==
  \A c \in ConnIds :
    CountsAttempts(conns[c])
      => conns[c].autoAttempts <= conns[c].options.maxReconnectAttempts

\* C16: executeTool for a tool of the catalog whose server has no
\* connection in the facade, or one whose status is not connected, fails
\* with a server-not-connected error and does nothing else: no connection
\* changes (no pending request, nothing sent), no usage is recorded, and
\* the server map, the catalog and the calls in flight stay as they were.
C16_NotConnectedFailsFast ==
  [][( /\ last'.op = "executeTool"
       /\ HasTool(tools, last'.tool)
       /\ LET sid == GetTool(tools, last'.tool).serverId
          IN  \/ servers[sid] = 0
              \/ conns[servers[sid]].status # "connected" )
     => ( /\ last'.result \in {"ServerNotConnected", "NotConnected"}
          /\ UNCHANGED <<conns, servers, tools, inflight, permVars>> )]_vars

\* executeTool was refused while the connection of its server, reconnecting
\* after a transport close, had ended in status error
C16_Witness ==
  /\ last.op = "executeTool" /\ last.result = "NotConnected"
  /\ HasTool(tools, last.tool)
  /\ servers["fs"] # 0
  /\ conns[servers["fs"]].status = "error"

C18_ConnectAcceptsEveryTransport ==
  [][(last'.op = "connect" /\ last'.step = "call"
      /\ conns[last'.conn].status = "disconnected")
     => conns'[last'.conn].status \in {"connecting", "connected"}]_vars

\* the checkPermission call just made found a rule for its pair
CheckedRule ==
  /\ last.op = "checkPermission"
  /\ <<last.caller, last.tool>> \in RulePairs

\* the checks of a rule that fail, as the permission model states them: a
\* limit that is set and reached, a parameter outside the allow-list
CallLimitReached(rule, agentId, toolId) ==
  Has(rule, "maxCallsPerSession")
    /\ GetCallCount(agentId, toolId) >= rule.maxCallsPerSession

CostLimitReached(rule, agentId, toolId) ==
  Has(rule, "maxCostPerSession")
    /\ GetCost(agentId, toolId) >= rule.maxCostPerSession

OutsideAllowList(rule, params) ==
  IF params.defined /\ Has(rule, "allowedParameters")
  THEN params.keys \ rule.allowedParameters
  ELSE {}

\* C19: checkPermission denies whenever a limit is set on the rule and its
\* counter has reached it, for every limit N >= 0: a reached call limit is
\* denied with the count and the limit in the reason; a reached cost limit
\* is denied, with the cost and the limit in the reason unless the call
\* limit, which is checked first, is reached too.
C19_ReachedLimitDenied ==
  CheckedRule =>
    LET rule == permissions[last.caller][last.tool]
        calls == CallLimitReached(rule, last.caller, last.tool)
        costs == CostLimitReached(rule, last.caller, last.tool)
    IN  /\ calls =>
             /\ ~last.check.allowed
             /\ last.check.reason.kind = "Call limit exceeded"
             /\ last.check.reason.amount = GetCallCount(last.caller, last.tool)
             /\ last.check.reason.limit = rule.maxCallsPerSession
        /\ costs => ~last.check.allowed
        /\ (costs /\ ~calls) =>
             /\ last.check.reason.kind = "Cost limit exceeded"
             /\ last.check.reason.amount = GetCost(last.caller, last.tool)
             /\ last.check.reason.limit = rule.maxCostPerSession

\* C20: checkPermission reports the first check that fails in the order no
\* rule, call limit, cost limit, allow-list; it allows only when none
\* fails, and the result carries requiresApproval exactly when it allows
\* and the rule requires approval.
C20_FirstFailingCheckWins ==
  last.op = "checkPermission" =>
    IF ~CheckedRule
    THEN /\ ~last.check.allowed /\ ~last.check.requiresApproval
         /\ last.check.reason.kind \in
              {"Agent does not have any permissions",
               "Agent does not have permission for this tool"}
    ELSE LET rule == permissions[last.caller][last.tool]
             outside == OutsideAllowList(rule, last.params)
             first ==
               IF CallLimitReached(rule, last.caller, last.tool)
               THEN "Call limit exceeded"
               ELSE IF CostLimitReached(rule, last.caller, last.tool)
               THEN "Cost limit exceeded"
               ELSE IF outside # {} THEN "Invalid parameters"
               ELSE "none"
         IN  /\ last.check.reason.kind = first
             /\ last.check.allowed <=> first = "none"
             /\ first = "Invalid parameters" => last.check.reason.keys = outside
             /\ last.check.requiresApproval <=>
                  ( /\ first = "none"
                    /\ Has(rule, "requireApproval") /\ rule.requireApproval )

C22_CountersMonotone ==
  [][\A a \in Callers, t \in PermToolIds :
       ~(last'.op = "resetSession" /\ last'.caller = a) =>
          /\ GetCallCount(a, t)' >= GetCallCount(a, t)
          /\ GetCost(a, t)' >= GetCost(a, t)]_vars

\* the rule of (agent, tool) has a call or cost limit that the counters u
\* had reached
LimitWasReached(agentId, toolId, u) ==
  /\ Has(permissions, agentId)
  /\ Has(permissions[agentId], toolId)
  /\ LET rule == permissions[agentId][toolId]
     IN  \/ /\ TruthyNum(rule, "maxCallsPerSession")
            /\ u.calls >= rule.maxCallsPerSession
         \/ /\ TruthyNum(rule, "maxCostPerSession")
            /\ u.cost >= rule.maxCostPerSession

\* C23: after resetSession(c) the call count and the cumulative cost of c
\* are zero for every tool, and a check for (c, t) whose only obstacle was
\* a call or cost limit reached before the reset is allowed.
C23_ResetLiftsLimits ==
  last.op = "resetSession" =>
    \A t \in PermToolIds :
      /\ GetCallCount(last.caller, t) = 0
      /\ GetCost(last.caller, t) = 0
      /\ \A p \in PermParamInputs :
           ( /\ LimitWasReached(last.caller, t, last.cleared[t])
             /\ OutsideAllowList(permissions[last.caller][t], p) = {} )
           => CheckPermission(last.caller, t, p).allowed

\* a reset cleared a call count that had reached the limit of its rule,
\* and the next check for that pair is allowed
C23_Witness ==
  /\ last.op = "resetSession"
  /\ \E t \in PermToolIds :
       /\ LimitWasReached(last.caller, t, last.cleared[t])
       /\ last.cleared[t].calls >= 1
       /\ CheckPermission(last.caller, t, NoParams).allowed

\* C29: setPermission(caller, tool, rule) makes rule the rule of that pair
\* and leaves the rule of every other pair and the call and cost counters
\* of every pair as they were; so when it raises a call limit from N to
\* N + 1 after N recorded calls the check of that pair is allowed, and the
\* recorded call that brings a count to its limit is followed by a denial.
C29_SetPermissionFrame ==
  [][\A c \in Callers, t \in PermToolIds :
       /\ (last'.op = "setPermission" /\ last'.caller = c /\ last'.tool = t) =>
            /\ callCounts' = callCounts
            /\ costTracking' = costTracking
            /\ RuleOf(c, t)' = <<last'.rule>>
            /\ \A p \in (Callers \X PermToolIds) \ {<<c, t>>} :
                 RuleOf(p[1], p[2])' = RuleOf(p[1], p[2])
            /\ ( /\ RuleOf(c, t) # <<>>
                 /\ DOMAIN last'.rule = {"maxCallsPerSession"}
                 /\ TruthyNum(RuleOf(c, t)[1], "maxCallsPerSession")
                 /\ last'.rule.maxCallsPerSession
                      = RuleOf(c, t)[1].maxCallsPerSession + 1
                 /\ GetCallCount(c, t) = RuleOf(c, t)[1].maxCallsPerSession )
                => CheckPermission(c, t, NoParams)'.allowed
       /\ (last'.op = "recordToolUsage" /\ last'.caller = c /\ last'.tool = t) =>
            /\ GetCallCount(c, t)' = GetCallCount(c, t) + 1
            /\ ( /\ RuleOf(c, t) # <<>>
                 /\ TruthyNum(RuleOf(c, t)[1], "maxCallsPerSession")
                 /\ GetCallCount(c, t)' >= RuleOf(c, t)[1].maxCallsPerSession )
                => ~CheckPermission(c, t, NoParams)'.allowed]_vars

\* a call limit of 1 was raised to 2 with one call on record, while another
\* pair has a rule and a count of its own, and the check is allowed again
C29_Witness ==
  /\ last.op = "setPermission"
  /\ last.previous = <<[maxCallsPerSession |-> 1]>>
  /\ last.rule = [maxCallsPerSession |-> 2]
  /\ GetCallCount(last.caller, last.tool) = 1
  /\ CheckPermission(last.caller, last.tool, NoParams).allowed
  /\ \E p \in RulePairs \cap UsagePairs : p # <<last.caller, last.tool>>

\* C24: when connectServer(id, ...) succeeds, for every tool name of the
\* connection's capabilities getTool("<id>:<name>") returns a descriptor
\* with that id, that name and serverId = id, and the descriptors of every
\* other server are what they were.
C24_ConnectRegistersOwnTools ==
  [][\A sid \in ServerIds :
       (last'.op = "connectServer" /\ last'.result = "ok" /\ last'.sid = sid) =>
          /\ \A i \in 1..Len(conns[last'.conn].capabilities) :
               LET name == conns[last'.conn].capabilities[i]
                   id == sid \o ":" \o name
               IN  /\ HasTool(tools', id)
                   /\ GetTool(tools', id).id = id
                   /\ GetTool(tools', id).serverId = sid
                   /\ GetTool(tools', id).name = name
          /\ ToolsNotOf(tools', sid) = ToolsNotOf(tools, sid)]_vars

\* connectServer of one server succeeded while the catalog holds the tool
\* of the other, and both descriptors can be retrieved
C24_Witness ==
  /\ last.op = "connectServer" /\ last.result = "ok"
  /\ conns[last.conn].capabilities # <<>>
  /\ HasTool(tools, "fs:echo") /\ HasTool(tools, ":echo")
  /\ GetTool(tools, "fs:echo").serverId = "fs"
  /\ GetTool(tools, ":echo").serverId = ""

\* C25: disconnectServer(id) for an id the server map does not hold fails
\* with the server-not-found error and leaves the server map, every
\* connection and the catalog as they were.
C25_DisconnectUnknownChangesNothing ==
  [][\A sid \in ServerIds :
       ( /\ last'.op = "disconnectServer" /\ last'.step = "call"
         /\ last'.sid = sid /\ ~ServerExists(sid) ) =>
          /\ last'.result = "ServerNotFound"
          /\ servers' = servers
          /\ conns' = conns
          /\ tools' = tools]_vars

\* disconnectServer failed for an id that is not registered while another
\* server is connected with its tool in the catalog
C25_Witness ==
  /\ last.op = "disconnectServer" /\ last.result = "ServerNotFound"
  /\ ~ServerExists(last.sid)
  /\ tools # <<>>
  /\ \E c \in ConnIds : conns[c].status = "connected"

\* the descriptor satisfies every field the filter holds
Satisfies(t, filter) ==
  /\ Has(filter, "serverId") => t.serverId = filter.serverId
  /\ Has(filter, "category") => Has(t, "category") /\ t.category = filter.category
  /\ Has(filter, "search") =>
       \/ Includes(ToLowerCase(t.name), ToLowerCase(filter.search))
       \/ Includes(ToLowerCase(t.description), ToLowerCase(filter.search))

\* C26: listTools(filter) returns exactly the catalog's descriptors that
\* satisfy every field the filter provides (serverId equal, category equal,
\* search text a case-insensitive substring of the name or the
\* description), in insertion order; with no filter it returns them all.
C26_ListToolsFilters ==
  last.op = "listTools" =>
    last.listed = SelectSeq(tools, LAMBDA t : Satisfies(t, last.filter))

\* C27: a transport close of a connected connection sets the status to
\* disconnected and rejects every pending request with connection-closed;
\* it arms the reconnect timer if and only if the reconnect option is set,
\* only an armed timer makes the automatic connect attempt, and with the
\* option off the status stays disconnected until a call of connect().
C27_TransportCloseReconnects ==
  [][\A c \in DirectConns :
       /\ (last'.op = "transportClose" /\ last'.conn = c) =>
            /\ conns[c].status = "connected"
            /\ conns'[c].status = "disconnected"
            /\ conns'[c].pendingRequests = {}
            /\ \A id \in conns[c].pendingRequests :
                 conns'[c].settled[id] = Append(conns[c].settled[id], "closed")
            /\ conns'[c].reconnectTimers =
                 conns[c].reconnectTimers
                   + (IF conns[c].options.reconnect THEN 1 ELSE 0)
       /\ (last'.op = "reconnect" /\ last'.step = "event" /\ last'.conn = c) =>
            conns[c].options.reconnect /\ conns[c].reconnectTimers > 0
       /\ ( /\ last.op = "transportClose" /\ last.conn = c
            /\ ~conns[c].options.reconnect
            /\ conns'[c].status # "disconnected" ) =>
            last'.op = "connect" /\ last'.step = "call"]_vars

\* C28: a handled message settles at most the pending request whose id is
\* the message's id, in whatever order the messages come: every other
\* request keeps its pending entry and its outcomes; a message whose id has
\* no pending entry settles nobody and leaves the pending map unchanged;
\* the status is never changed by a message; and sendRequest allocates
\* requestId + 1, an id no earlier request of the connection had.
C28_ResponsesCorrelatedById ==
  [][\A c \in DirectConns :
       /\ (last'.op = "handleMessage" /\ last'.conn = c) =>
            LET old == conns[c]
                new == conns'[c]
                m == last'.req
            IN  /\ new.status = old.status
                /\ new.requestId = old.requestId
                /\ \A i \in DOMAIN old.settled :
                     i # m =>
                       /\ new.settled[i] = old.settled[i]
                       /\ i \in new.pendingRequests <=> i \in old.pendingRequests
                /\ m \notin old.pendingRequests =>
                     /\ new.settled = old.settled
                     /\ new.pendingRequests = old.pendingRequests
                /\ m \in old.pendingRequests =>
                     \/ /\ new.settled = old.settled
                        /\ new.pendingRequests = old.pendingRequests
                     \/ /\ new.pendingRequests = old.pendingRequests \ {m}
                        /\ old.settled[m] = <<>>
                        /\ new.settled[m] \in {<<"result">>, <<"error">>}
       /\ (last'.op = "sendRequest" /\ last'.conn = c /\ last'.result = "pending") =>
            /\ conns'[c].requestId = conns[c].requestId + 1
            /\ last'.req = conns'[c].requestId
            /\ last'.req \notin DOMAIN conns[c].settled
            /\ conns'[c].pendingRequests = conns[c].pendingRequests \cup {last'.req}
       /\ (c \in ConnIds) => conns'[c].requestId >= conns[c].requestId]_vars

\* the response to the second request arrived while the first was still
\* waiting, and it went to the second
C28_Witness ==
  /\ last.op = "handleMessage" /\ last.req = 2 /\ last.conn \in DirectConns
  /\ conns[last.conn].options.transport = "websocket"
  /\ conns[last.conn].requestId = 2
  /\ conns[last.conn].settled[2] = <<"result">>
  /\ conns[last.conn].settled[1] = <<>>
  /\ conns[last.conn].pendingRequests = {1}

\* C30: disconnect() called while the status is connecting returns at once:
\* the connection, its status included, and the connect() calls in flight
\* are what they were, one of them still waiting for its socket; and when
\* the socket of a connect() in flight opens, the status becomes connected
\* and the call goes on to fetch the capabilities.
C30_DisconnectWhileConnectingIsNoop ==
  [][\A c \in DirectConns :
       /\ ( /\ last'.op = "disconnect" /\ last'.conn = c
            /\ conns[c].status = "connecting" ) =>
            /\ last'.result = "noop"
            /\ conns' = conns
            /\ inflight' = inflight
            /\ \E k \in inflight : k.conn = c /\ k.pc = "awaitSocket"
       /\ (last'.op = "socketOpen" /\ last'.conn = c) =>
            /\ conns'[c].status = "connected"
            /\ \E k \in inflight :
                 /\ k.conn = c /\ k.pc = "awaitSocket"
                 /\ inflight' = (inflight \ {k}) \cup {[k EXCEPT !.pc = "awaitFetch"]}]_vars

\* disconnect() was called while a connect() of a caller waited for its
\* socket: the status is still connecting and the call still waits
C30_Witness ==
  /\ last.op = "disconnect" /\ last.result = "noop"
  /\ last.conn \in DirectConns
  /\ conns[last.conn].status = "connecting"
  /\ \E k \in ConnectsInFlight(last.conn) : k.pc = "awaitSocket"

====
